---------------------------- MODULE Spec2Model ----------------------------
(***************************************************************************)
(* Model of the respiratory-risk pipeline of the Community Health backend: *)
(*   backend/train_model.py  main(): encode the survey, label it, resample *)
(*                           class 1, fit the forest, write model.pkl and  *)
(*                           encoders.pkl;                                 *)
(*   backend/main.py         module import (load_data, load_model) and the *)
(*                           /api/predict handler.                         *)
(* The two programs share only the two pickle files.                       *)
(***************************************************************************)
EXTENDS Integers, Sequences, FiniteSets, TLC

(***************************************************************************)
(* Bounds of the model.                                                    *)
(***************************************************************************)
\* rows of data.xlsx
MaxRows == 3
\* executions of train_model.py, one after the other
MaxRuns == 2
\* predict requests in flight in the serving process
MaxReq == 3
\* predict_proba returns p1 as a multiple of 1/PROBA_DEN
PROBA_DEN == 3000

(***************************************************************************)
(* Program constants.                                                      *)
(***************************************************************************)
FEATURE_COLS ==
    << "Age Group", "Housing Type", "Dust Entry Frequency",
       "Worst Pollution Season", "Morning Chest Heaviness",
       "Wheezing Sound", "Eye/Throat Irritation",
       "Open Drains Nearby", "Foul Smell Daily", "Construction Pollution" >>

POSITIVE_CLASS == "It is a Disease"

\* risk_pct < 35 is "Low Risk"
LOW_BELOW == 35

\* risk_pct < 55 is "Moderate Risk"
MODERATE_BELOW == 55

(***************************************************************************)
(* Values.                                                                 *)
(***************************************************************************)
\* a missing cell of the spreadsheet (pandas NaN)
NA == "<NA>"

\* the ValueError of LabelEncoder.transform on a label it was not fit on
Raise == -1

NCols == Len(FEATURE_COLS)

ColSet == {FEATURE_COLS[i] : i \in 1..NCols}

\* Python's order of the strings that occur as labels (np.unique sorts)
LabelOrder == << "Maybe", "No", "Unknown", "Yes" >>

Range(s) == {s[i] : i \in 1..Len(s)}

Min(S) == CHOOSE m \in S : \A n \in S : m <= n

Max2(a, b) == IF a >= b THEN a ELSE b

(***************************************************************************)
(* Bounded inputs.  A row answers the questions at odd positions of        *)
(* FEATURE_COLS with a and the others with b.                              *)
(***************************************************************************)
ColsA == {FEATURE_COLS[i] : i \in {j \in 1..NCols : j % 2 = 1}}

RowOf(a, b) == [c \in ColSet |-> IF c \in ColsA THEN a ELSE b]

\* the rows data.xlsx is made of: three answer patterns, each with two of
\* the three target cells (the positive string, another string, missing)
SurveyRows ==
    { [feat |-> RowOf("No", "Yes"), target |-> POSITIVE_CLASS],
      [feat |-> RowOf("No", "Yes"), target |-> "Normal"],
      [feat |-> RowOf("Yes", NA), target |-> POSITIVE_CLASS],
      [feat |-> RowOf("Yes", NA), target |-> NA],
      [feat |-> RowOf(NA, "No"), target |-> "Normal"],
      [feat |-> RowOf(NA, "No"), target |-> NA] }

Corpora == UNION { [1..n -> SurveyRows] : n \in 0..MaxRows }

\* the answers of a request: at the odd positions any of three, at the
\* others one of two; "Maybe" is in no training answer
RequestAnswers == { "No", "Yes", "Maybe" }

RequestAnswersB == { "Yes", "Maybe" }

(***************************************************************************)
(* sklearn.preprocessing.LabelEncoder, as train_model.py and main.py use   *)
(* it.  An encoder is its classes_, the sorted distinct labels; the code   *)
(* of a label is its 0-based position.                                     *)
(***************************************************************************)
fillna(col) == [i \in 1..Len(col) |-> IF col[i] = NA THEN "Unknown" ELSE col[i]]

fit_keep_duplicates(col) == col

fit(col) == SelectSeq(LabelOrder, LAMBDA s : \E i \in 1..Len(col) : col[i] = s)

transform(classes_, val) ==
    IF val \in Range(classes_)
    THEN Min({i \in 1..Len(classes_) : classes_[i] = val}) - 1
    ELSE Raise

fit_transform(col) ==
    LET classes_ == fit(col)
    IN  [i \in 1..Len(col) |-> transform(classes_, col[i])]

Column(df, c) == [i \in 1..Len(df) |-> df[i].feat[c]]

\* lines 55-60: one encoder per feature column
EncodeColumns(df) == [c \in ColSet |-> fit(fillna(Column(df, c)))]

\* lines 56-59: the frame X, one row of codes per survey row
EncodeRows(df) ==
    LET coded == [k \in 1..NCols |->
                    fit_transform(fillna(Column(df, FEATURE_COLS[k])))]
    IN  [i \in 1..Len(df) |->
           [index |-> i, codes |-> [k \in 1..NCols |-> coded[k][i]]]]

\* line 64
y_raw(df) ==
    [i \in 1..Len(df) |-> IF df[i].target = POSITIVE_CLASS THEN "Yes" ELSE "No"]

(***************************************************************************)
(* Lines 83-98: the split by label and the resampling of class 1.          *)
(***************************************************************************)
Positions(ys, v) ==
    SelectSeq([i \in 1..Len(ys) |-> i], LAMBDA i : ys[i] = v)

Mask(xs, ys, v) ==
    LET at == Positions(ys, v)
    IN  [j \in 1..Len(at) |-> xs[at[j]]]

Count(ys, v) == Len(Positions(ys, v))

Take(xs, ch) == [j \in 1..Len(ch) |-> xs[ch[j]]]

sample_size_of_class_1(X_0, X_1) == Len(X_1)

\* line 91: size=len(X_0)
sample_size(X_0, X_1) == Len(X_0)

\* line 91: np.random.choice(ids_1, size) on the unseeded global generator:
\* every index sequence is a possible draw
Draws(X_0, X_1) == [1..sample_size(X_0, X_1) -> 1..Len(X_1)]

\* lines 93-98: X_1.iloc[choices] under X_0, y_1[choices] under y_0
balanced_X(Xs, ys, ch) == Mask(Xs, ys, 0) \o Take(Mask(Xs, ys, 1), ch)

balanced_y(ys, ch) == Mask(ys, ys, 0) \o Take(Mask(ys, ys, 1), ch)

(***************************************************************************)
(* RandomForestClassifier(random_state=38).fit: a deterministic function   *)
(* of the training rows.  The model keeps of the fitted forest what        *)
(* predict_proba gives: for a vector met in training the share of class 1  *)
(* among the training rows equal to it, for any other the share of class 1 *)
(* among all training rows, in units of 1/PROBA_DEN.                       *)
(***************************************************************************)
Share(ys) == (Count(ys, 1) * PROBA_DEN) \div Len(ys)

forest_fit(Xb, yb) ==
    [default |-> Share(yb),
     known |-> { [x |-> v,
                  p |-> Share(Mask(yb, [i \in 1..Len(Xb) |->
                                          IF Xb[i].codes = v THEN 1 ELSE 0], 1))]
                 : v \in {Xb[i].codes : i \in 1..Len(Xb)} }]

predict_proba(clf, xs) ==
    IF \E e \in clf.known : e.x = xs
    THEN (CHOOSE e \in clf.known : e.x = xs).p
    ELSE clf.default


(***************************************************************************)
(* State.                                                                  *)
(***************************************************************************)
VARIABLES
    \* the files: data.xlsx (training), the survey workbook (serving) and
    \* the two pickles, each with the run that wrote it
    corpus, survey_present, model_pkl, encoders_pkl,
    \* train_model.py: the run in progress, its position and its locals
    run, tpc, t_df, X, y, t_encoders, choices, X_balanced, y_balanced,
    t_model, failed_at,
    \* the runs that ended, in order
    hist,
    \* main.py: position of the module import, the two files as load_model
    \* read them, and the module globals model and encoders
    spc, loaded, model, encoders,
    \* main.py: the worker slots and the predict call of each
    slots, req

train_vars ==
    << run, tpc, t_df, X, y, t_encoders, choices, X_balanced, y_balanced,
       t_model, failed_at, hist >>

file_vars == << corpus, survey_present >>

pickle_vars == << model_pkl, encoders_pkl >>

serve_vars == << spc, loaded, model, encoders, slots, req >>

vars == << file_vars, pickle_vars, train_vars, serve_vars >>

\* a file that does not exist
Absent == [state |-> "absent", writer |-> 0, content |-> << >>]

\* open(path, "wb") truncated it and pickle.dump has not finished
Partial(r) == [state |-> "partial", writer |-> r, content |-> << >>]

Written(r, obj) == [state |-> "valid", writer |-> r, content |-> obj]

\* a file load_model has not opened yet
Unread == [state |-> "unread", writer |-> 0, content |-> << >>]

IdleCall ==
    [pc |-> "idle", user_inputs |-> << >>, encoded_values |-> << >>,
     response |-> << >>]

(***************************************************************************)
(* train_model.py, main().                                                 *)
(***************************************************************************)
TrainLocalsInit ==
    /\ tpc = "start"
    /\ t_df = << >>
    /\ X = << >>
    /\ y = << >>
    /\ t_encoders = << >>
    /\ choices = << >>
    /\ X_balanced = << >>
    /\ y_balanced = << >>
    /\ t_model = << >>
    /\ failed_at = "none"

\* lines 50-52
ReadExcel ==
    /\ tpc = "start"
    /\ t_df' = corpus
    /\ tpc' = "loaded"
    /\ UNCHANGED << run, X, y, t_encoders, choices, X_balanced, y_balanced,
                    t_model, failed_at, hist >>
    /\ UNCHANGED << file_vars, pickle_vars, serve_vars >>

\* lines 55-60
EncodeFeatures ==
    /\ tpc = "loaded"
    /\ X' = EncodeRows(t_df)
    /\ t_encoders' = << EncodeColumns(t_df) >>
    /\ tpc' = "encoded"
    /\ UNCHANGED << run, t_df, y, choices, X_balanced, y_balanced, t_model,
                    failed_at, hist >>
    /\ UNCHANGED << file_vars, pickle_vars, serve_vars >>

\* lines 63-67
EncodeTarget ==
    /\ tpc = "encoded"
    /\ y' = fit_transform(y_raw(t_df))
    /\ t_encoders' =
         << [c \in ColSet \cup {"__target__"} |->
               IF c = "__target__" THEN fit(y_raw(t_df)) ELSE t_encoders[1][c]] >>
    /\ tpc' = "labelled"
    /\ UNCHANGED << run, t_df, X, choices, X_balanced, y_balanced, t_model,
                    failed_at, hist >>
    /\ UNCHANGED << file_vars, pickle_vars, serve_vars >>

\* lines 83-98; np.random.choice raises ValueError on an empty ids_1 when
\* size > 0
Oversample ==
    /\ tpc = "labelled"
    /\ LET X_0 == Mask(X, y, 0)
           X_1 == Mask(X, y, 1)
       IN  IF Len(X_1) = 0 /\ sample_size(X_0, X_1) > 0
           THEN /\ tpc' = "failed"
                /\ failed_at' = "choice"
                /\ UNCHANGED << choices, X_balanced, y_balanced >>
           ELSE \E ch \in Draws(X_0, X_1) :
                /\ choices' = ch
                /\ X_balanced' = balanced_X(X, y, ch)
                /\ y_balanced' = balanced_y(y, ch)
                /\ tpc' = "balanced"
                /\ UNCHANGED failed_at
    /\ UNCHANGED << run, t_df, X, y, t_encoders, t_model, hist >>
    /\ UNCHANGED << file_vars, pickle_vars, serve_vars >>

\* line 103; fit raises ValueError on zero samples
Fit ==
    /\ tpc = "balanced"
    /\ IF Len(X_balanced) = 0
       THEN /\ tpc' = "failed"
            /\ failed_at' = "fit"
            /\ UNCHANGED t_model
       ELSE /\ t_model' = << forest_fit(X_balanced, y_balanced) >>
            /\ tpc' = "fitted"
            /\ UNCHANGED failed_at
    /\ UNCHANGED << run, t_df, X, y, t_encoders, choices, X_balanced,
                    y_balanced, hist >>
    /\ UNCHANGED << file_vars, pickle_vars, serve_vars >>

\* line 110
OpenModelFile ==
    /\ tpc = "fitted"
    /\ model_pkl' = Partial(run)
    /\ tpc' = "model_open"
    /\ UNCHANGED << run, t_df, X, y, t_encoders, choices, X_balanced,
                    y_balanced, t_model, failed_at, hist >>
    /\ UNCHANGED << file_vars, encoders_pkl, serve_vars >>

\* line 111
DumpModel ==
    /\ tpc = "model_open"
    /\ model_pkl' = Written(run, t_model)
    /\ tpc' = "model_saved"
    /\ UNCHANGED << run, t_df, X, y, t_encoders, choices, X_balanced,
                    y_balanced, t_model, failed_at, hist >>
    /\ UNCHANGED << file_vars, encoders_pkl, serve_vars >>

\* line 112
OpenEncodersFile ==
    /\ tpc = "model_saved"
    /\ encoders_pkl' = Partial(run)
    /\ tpc' = "encoders_open"
    /\ UNCHANGED << run, t_df, X, y, t_encoders, choices, X_balanced,
                    y_balanced, t_model, failed_at, hist >>
    /\ UNCHANGED << file_vars, model_pkl, serve_vars >>

\* lines 113-117
DumpEncoders ==
    /\ tpc = "encoders_open"
    /\ encoders_pkl' = Written(run, t_encoders)
    /\ tpc' = "done"
    /\ UNCHANGED << run, t_df, X, y, t_encoders, choices, X_balanced,
                    y_balanced, t_model, failed_at, hist >>
    /\ UNCHANGED << file_vars, model_pkl, serve_vars >>

\* the process dies while it saves (interrupt, full disk, kill): nothing
\* of main() catches it, and a file it opened stays as it is
Killed ==
    /\ tpc \in {"model_open", "model_saved", "encoders_open"}
    /\ tpc' = "failed"
    /\ failed_at' = "save"
    /\ UNCHANGED << run, t_df, X, y, t_encoders, choices, X_balanced,
                    y_balanced, t_model, hist >>
    /\ UNCHANGED << file_vars, pickle_vars, serve_vars >>

Snapshot ==
    [run |-> run, pc |-> tpc, failed_at |-> failed_at, X |-> X, y |-> y,
     encoders |-> t_encoders, choices |-> choices,
     X_balanced |-> X_balanced, y_balanced |-> y_balanced, model |-> t_model]

\* "python train_model.py" once more, on the same data.xlsx
RunAgain ==
    /\ tpc \in {"done", "failed"}
    /\ run < MaxRuns
    /\ hist' = Append(hist, Snapshot)
    /\ run' = run + 1
    /\ tpc' = "start"
    /\ t_df' = << >>
    /\ X' = << >>
    /\ y' = << >>
    /\ t_encoders' = << >>
    /\ choices' = << >>
    /\ X_balanced' = << >>
    /\ y_balanced' = << >>
    /\ t_model' = << >>
    /\ failed_at' = "none"
    /\ UNCHANGED << file_vars, pickle_vars, serve_vars >>

TrainNext ==
    \/ ReadExcel
    \/ EncodeFeatures
    \/ EncodeTarget
    \/ Oversample
    \/ Fit
    \/ OpenModelFile
    \/ DumpModel
    \/ OpenEncodersFile
    \/ DumpEncoders
    \/ RunAgain

ServeIdleInit ==
    /\ spc = "import"
    /\ loaded = [model |-> Unread, encoders |-> Unread]
    /\ model = << >>
    /\ encoders = << >>
    /\ req = [r \in 1..MaxReq |-> IdleCall]

\* the training script alone, on every bounded corpus
TrainInit ==
    /\ corpus \in Corpora
    /\ survey_present = TRUE
    /\ model_pkl = Absent
    /\ encoders_pkl = Absent
    /\ run = 1
    /\ hist = << >>
    /\ TrainLocalsInit
    /\ ServeIdleInit
    /\ slots = {}

TrainSpec == TrainInit /\ [][TrainNext]_vars


(***************************************************************************)
(* Properties of the training script.                                      *)
(***************************************************************************)
\* the runs so far: those that ended and the one in progress
AllRuns == Append(hist, Snapshot)

RunIds == 1..Len(AllRuns)

Encoded(h) == h.encoders # << >>

Labelled(h) == h.pc \notin {"start", "loaded", "encoded"}

\* the run reached line 91
Attempted(h) == h.pc \notin {"start", "loaded", "encoded", "labelled"}

\* the run got past line 98: X_balanced and y_balanced exist
Produced(h) == Attempted(h) /\ ~(h.pc = "failed" /\ h.failed_at = "choice")

Imbalanced(h) == Count(h.y, 0) # Count(h.y, 1)

BalancedAsClaimed(h) ==
    /\ Count(h.y_balanced, 1) = Count(h.y_balanced, 0)
    /\ \A j \in 1..Len(h.X_balanced) :
          h.y_balanced[j] = 1 => h.X_balanced[j] \in Range(Mask(h.X, h.y, 1))
    /\ Mask(h.X_balanced, h.y_balanced, 0) = Mask(h.X, h.y, 0)

\* what a column of data.xlsx holds once missing cells read "Unknown"
Filled(c) == fillna(Column(corpus, c))

CodesOf(h, k) == [i \in 1..Len(h.X) |-> h.X[i].codes[k]]

\* C3: for every corpus and every feature column the encoder the run fitted
\* maps the k distinct labels of the column (missing cells counted as the
\* one label "Unknown") one-to-one onto 0..k-1, and it is the mapping every
\* earlier run fitted on the same column.
C3_EncoderCodes ==
    Encoded(Snapshot) =>
       /\ \A k \in 1..NCols :
             LET c == FEATURE_COLS[k]
                 col == Filled(c)
                 labels == Range(col)
                 classes_ == t_encoders[1][c]
                 code == CodesOf(Snapshot, k)
             IN  /\ Len(classes_) = Cardinality(labels)
                 /\ Range(classes_) = labels
                 /\ Range(code) = 0..(Cardinality(labels) - 1)
                 /\ \A i, j \in 1..Len(col) :
                       (col[i] = col[j]) <=> (code[i] = code[j])
                 /\ \A i \in 1..Len(col) : classes_[code[i] + 1] = col[i]
                 /\ (\E i \in 1..Len(col) : corpus[i].feat[c] = NA)
                       => "Unknown" \in labels
       /\ \A r \in 1..Len(hist) : Encoded(hist[r]) =>
             /\ \A c \in ColSet : hist[r].encoders[1][c] = t_encoders[1][c]
             /\ hist[r].X = X

\* C3 witness: a second run has fitted again a column with a missing cell and
\* at least two labels.
C3_Witness ==
    /\ Len(hist) >= 1
    /\ Encoded(hist[1])
    /\ Encoded(Snapshot)
    /\ \E c \in ColSet :
          /\ Len(t_encoders[1][c]) >= 2
          /\ \E i \in 1..Len(corpus) : corpus[i].feat[c] = NA

\* the labels of the run are the ones the target cells call for
LabelsAsIntended(h) ==
    \A i \in 1..Len(corpus) :
       h.y[i] = (IF corpus[i].target = POSITIVE_CLASS THEN 1 ELSE 0)

\* C4 as stated: for any training set whose label counts differ the
\* oversampling step produces a set with as many label-1 rows as label-0
\* rows, whose label-1 rows are input label-1 rows and whose label-0 rows are
\* the input's label-0 rows, each once and in order.  (Read on the training
\* sets labelled as intended, so that a failure is the step's own.)
C4_AnyImbalancedSet ==
    \A r \in RunIds :
       ( /\ Attempted(AllRuns[r])
         /\ Imbalanced(AllRuns[r])
         /\ LabelsAsIntended(AllRuns[r]) ) =>
          Produced(AllRuns[r]) /\ BalancedAsClaimed(AllRuns[r])

\* C4 amended: the same, for the training sets whose label counts differ and
\* that hold at least one label-1 row.
C4_ImbalancedWithPositives ==
    \A r \in RunIds :
       ( /\ Attempted(AllRuns[r])
         /\ Imbalanced(AllRuns[r])
         /\ Count(AllRuns[r].y, 1) >= 1 ) =>
          Produced(AllRuns[r]) /\ BalancedAsClaimed(AllRuns[r])

\* C4 witness: label 1 is the minority and one of its rows was drawn twice.
C4_Witness ==
    /\ tpc = "balanced"
    /\ Count(y, 1) >= 1
    /\ Count(y, 0) > Count(y, 1)
    /\ Len(choices) >= 2
    /\ choices[1] = choices[2]

\* C5: with at least one row of each label the balanced set has
\* 2 x majority_count rows, whichever label is the majority.
C5_TwiceMajority ==
    \A r \in RunIds :
       ( /\ Produced(AllRuns[r])
         /\ Count(AllRuns[r].y, 0) >= 1
         /\ Count(AllRuns[r].y, 1) >= 1 ) =>
          Len(AllRuns[r].X_balanced)
             = 2 * Max2(Count(AllRuns[r].y, 0), Count(AllRuns[r].y, 1))

\* C6: two completed runs on the same corpus drew the same resample indices,
\* built the same balanced set and persisted the same classifier and
\* encoders.
C6_Reproducible ==
    \A r1, r2 \in RunIds :
       AllRuns[r1].pc = "done" /\ AllRuns[r2].pc = "done" =>
          /\ AllRuns[r1].choices = AllRuns[r2].choices
          /\ AllRuns[r1].X_balanced = AllRuns[r2].X_balanced
          /\ AllRuns[r1].y_balanced = AllRuns[r2].y_balanced
          /\ AllRuns[r1].model = AllRuns[r2].model
          /\ AllRuns[r1].encoders = AllRuns[r2].encoders

\* C10: the label of a row is 1 exactly when its target cell equals
\* POSITIVE_CLASS and 0 otherwise, whatever the other rows hold.
C10_LabelIsPositiveTest ==
    \A r \in RunIds : Labelled(AllRuns[r]) => LabelsAsIntended(AllRuns[r])


(***************************************************************************)
(* main.py: the module import (lines 62-63) and the predict handler.       *)
(***************************************************************************)
\* line 226: round(float(proba[1]) * 100, 1), in tenths of a percent, for
\* p1 = k / PROBA_DEN (to the nearest tenth; no k lies halfway)
risk_pct_of(k) == (2 * 1000 * k + PROBA_DEN) \div (2 * PROBA_DEN)

risk_level_inclusive(risk_pct) ==
    IF risk_pct <= LOW_BELOW * 10 THEN "Low Risk"
    ELSE IF risk_pct <= MODERATE_BELOW * 10 THEN "Moderate Risk"
    ELSE "High Risk"

\* lines 228-233, risk_pct in tenths of a percent
risk_level(risk_pct) ==
    IF risk_pct < LOW_BELOW * 10 THEN "Low Risk"
    ELSE IF risk_pct < MODERATE_BELOW * 10 THEN "Moderate Risk"
    ELSE "High Risk"

encode_value_unguarded(classes_, val) == transform(classes_, val)

\* lines 219-222
encode_value(classes_, val) ==
    IF val \in Range(classes_) THEN transform(classes_, val) ELSE 0

\* lines 215-222
encode_inputs(encs, user_inputs) ==
    [k \in 1..NCols |->
        encode_value(encs[FEATURE_COLS[k]], user_inputs[FEATURE_COLS[k]])]

\* line 62: load_data() raises when the workbook is missing, and the import
\* of the module ends there
LoadData ==
    /\ spc = "import"
    /\ spc' = IF survey_present THEN "data_loaded" ELSE "crashed"
    /\ UNCHANGED << loaded, model, encoders, slots, req >>
    /\ UNCHANGED << file_vars, pickle_vars, train_vars >>

\* lines 55-56: open() or pickle.load raises on a missing or unfinished file
LoadModelFile ==
    /\ spc = "data_loaded"
    /\ loaded' = [loaded EXCEPT !.model = model_pkl]
    /\ spc' = IF model_pkl.state = "valid" THEN "model_read" ELSE "crashed"
    /\ UNCHANGED << model, encoders, slots, req >>
    /\ UNCHANGED << file_vars, pickle_vars, train_vars >>

LoadEncodersFile_swallowing_errors ==
    /\ spc = "model_read"
    /\ loaded' = [loaded EXCEPT !.encoders = encoders_pkl]
    /\ model' = loaded.model.content
    /\ encoders' = encoders_pkl.content
    /\ spc' = "serving"
    /\ UNCHANGED << slots, req >>
    /\ UNCHANGED << file_vars, pickle_vars, train_vars >>

\* lines 57-59 and the assignment of line 63; the app object exists, and
\* requests are routed, only once the import has finished
LoadEncodersFile ==
    /\ spc = "model_read"
    /\ loaded' = [loaded EXCEPT !.encoders = encoders_pkl]
    /\ IF encoders_pkl.state = "valid"
       THEN /\ model' = loaded.model.content
            /\ encoders' = encoders_pkl.content
            /\ spc' = "serving"
       ELSE /\ spc' = "crashed"
            /\ UNCHANGED << model, encoders >>
    /\ UNCHANGED << slots, req >>
    /\ UNCHANGED << file_vars, pickle_vars, train_vars >>

\* lines 189-213: a request with its 10 answers reaches the handler
Accept(r) ==
    /\ spc = "serving"
    /\ req[r].pc = "idle"
    /\ \E a \in RequestAnswers, b \in RequestAnswersB :
          req' = [req EXCEPT ![r] =
                    [pc |-> "accepted", user_inputs |-> << RowOf(a, b) >>,
                     encoded_values |-> << >>, response |-> << >>]]
    /\ UNCHANGED << spc, loaded, model, encoders, slots >>
    /\ UNCHANGED << file_vars, pickle_vars, train_vars >>

Encode_remembering_new_labels(r) ==
    /\ req[r].pc = "accepted"
    /\ LET ev == encode_inputs(encoders[1], req[r].user_inputs[1])
       IN  /\ req' = [req EXCEPT ![r].encoded_values = ev, ![r].pc = "encoded"]
           /\ encoders' =
                << [c \in DOMAIN encoders[1] |->
                      IF c \in ColSet
                         /\ req[r].user_inputs[1][c] \notin Range(encoders[1][c])
                      THEN Append(encoders[1][c], req[r].user_inputs[1][c])
                      ELSE encoders[1][c]] >>
    /\ UNCHANGED << spc, loaded, model, slots >>
    /\ UNCHANGED << file_vars, pickle_vars, train_vars >>

\* lines 215-222: the loop over FEATURE_COLS; an exception of transform
\* would end the request with an error
Encode(r) ==
    /\ req[r].pc = "accepted"
    /\ LET ev == encode_inputs(encoders[1], req[r].user_inputs[1])
       IN  req' = [req EXCEPT ![r].encoded_values = ev,
                              ![r].pc = IF Raise \in Range(ev)
                                        THEN "error" ELSE "encoded"]
    /\ UNCHANGED << spc, loaded, model, encoders, slots >>
    /\ UNCHANGED << file_vars, pickle_vars, train_vars >>

\* lines 224-239
Respond(r) ==
    /\ req[r].pc = "encoded"
    /\ LET risk_pct == risk_pct_of(predict_proba(model[1], req[r].encoded_values))
       IN  req' = [req EXCEPT ![r].pc = "done",
                              ![r].response =
                                 << [probability |-> risk_pct,
                                     risk_level |-> risk_level(risk_pct),
                                     inputs |-> req[r].user_inputs[1]] >>]
    /\ UNCHANGED << spc, loaded, model, encoders, slots >>
    /\ UNCHANGED << file_vars, pickle_vars, train_vars >>

ServeNext ==
    \/ LoadData
    \/ LoadModelFile
    \/ LoadEncodersFile
    \/ \E r \in slots : Accept(r)
    \/ \E r \in slots : Encode(r)
    \/ \E r \in slots : Respond(r)

(***************************************************************************)
(* Artifacts of earlier training runs, for the serving process started on  *)
(* files that already exist.                                               *)
(***************************************************************************)
SampleCorpus1 ==
    << [feat |-> RowOf("No", "Yes"), target |-> "Normal"],
       [feat |-> RowOf("Yes", NA), target |-> POSITIVE_CLASS],
       [feat |-> RowOf(NA, "No"), target |-> "Normal"] >>

SampleCorpus2 ==
    << [feat |-> RowOf("No", "Yes"), target |-> POSITIVE_CLASS],
       [feat |-> RowOf("Yes", NA), target |-> NA] >>

\* what lines 55-66 leave in encoders
TrainedEncoders(df) ==
    [c \in ColSet \cup {"__target__"} |->
        IF c = "__target__" THEN fit(y_raw(df)) ELSE EncodeColumns(df)[c]]

\* what lines 55-103 leave in model when line 91 draws ch
TrainedModel(df, ch) ==
    forest_fit(balanced_X(EncodeRows(df), fit_transform(y_raw(df)), ch),
               balanced_y(fit_transform(y_raw(df)), ch))

SampleModels ==
    { TrainedModel(SampleCorpus1, << 1, 1 >>), TrainedModel(SampleCorpus2, << 1 >>) }

SampleEncoders ==
    { TrainedEncoders(SampleCorpus1), TrainedEncoders(SampleCorpus2) }

\* a forest that gives every vector the same p1 = k / PROBA_DEN
ConstantModel(k) == [default |-> k, known |-> {}]

TrainIdleInit ==
    /\ run = 1
    /\ hist = << >>
    /\ TrainLocalsInit

\* the serving process alone, started on any state of the three files
ServeInit ==
    /\ corpus = << >>
    /\ survey_present \in BOOLEAN
    /\ model_pkl \in {Absent, Partial(0)}
                        \cup {Written(0, << m >>) : m \in SampleModels}
    /\ encoders_pkl \in {Absent, Partial(0)}
                        \cup {Written(0, << e >>) : e \in SampleEncoders}
    /\ TrainIdleInit
    /\ ServeIdleInit
    /\ slots = 1..MaxReq

ServeSpec == ServeInit /\ [][ServeNext]_vars

\* the serving process with one worker, on every forest output
TierInit ==
    /\ corpus = << >>
    /\ survey_present = TRUE
    /\ model_pkl \in {Written(0, << ConstantModel(k) >>) : k \in 0..PROBA_DEN}
    /\ encoders_pkl = Written(0, << TrainedEncoders(SampleCorpus1) >>)
    /\ TrainIdleInit
    /\ ServeIdleInit
    /\ slots = {1}

TierSpec == TierInit /\ [][ServeNext]_vars

(***************************************************************************)
(* Both programs on one directory: training runs, which may die while they *)
(* save, and one start of the serving process at any moment.               *)
(***************************************************************************)
Init ==
    /\ corpus \in {SampleCorpus1, SampleCorpus2}
    /\ survey_present = TRUE
    /\ model_pkl = Absent
    /\ encoders_pkl = Absent
    /\ TrainIdleInit
    /\ ServeIdleInit
    /\ slots = {1}

Next == TrainNext \/ Killed \/ ServeNext

Spec == Init /\ [][Next]_vars


(***************************************************************************)
(* Properties of the serving process.                                      *)
(***************************************************************************)
Calls == 1..MaxReq

Tiers == {"Low Risk", "Moderate Risk", "High Risk"}

\* C1: the tier of a response is decided by its one-decimal percentage x
\* alone: Low below 35, Moderate from 35 and below 55, High from 55, for
\* every x of 0.0..100.0 (x is held in tenths).
C1_TierOfPercentage ==
    \A r \in Calls : req[r].pc = "done" =>
       LET x == req[r].response[1].probability
           t == req[r].response[1].risk_level
       IN  /\ x \in 0..1000
           /\ t \in Tiers
           /\ (t = "Low Risk") <=> (x < 350)
           /\ (t = "Moderate Risk") <=> (350 <= x /\ x < 550)
           /\ (t = "High Risk") <=> (x >= 550)

\* C1 witness: a response of exactly 35.0 percent, the first Moderate value.
C1_Witness ==
    \E r \in Calls :
       /\ req[r].pc = "done"
       /\ req[r].response[1].probability = 350
       /\ req[r].response[1].risk_level = "Moderate Risk"

\* C2: in every request past the encoding loop, an answer that is not a
\* label of its feature's encoder has code 0, an answer that is a label has
\* the encoder's code of that label, the loop did not fail, and a response
\* carries a percentage and a tier.
C2_UnseenAnswerIsZero ==
    \A r \in Calls : req[r].pc \notin {"idle", "accepted"} =>
       /\ req[r].pc # "error"
       /\ Len(req[r].encoded_values) = NCols
       /\ \A k \in 1..NCols :
             LET classes_ == encoders[1][FEATURE_COLS[k]]
                 val == req[r].user_inputs[1][FEATURE_COLS[k]]
                 code == req[r].encoded_values[k]
             IN  /\ val \notin Range(classes_) => code = 0
                 /\ val \in Range(classes_) =>
                       /\ code \in 0..(Len(classes_) - 1)
                       /\ classes_[code + 1] = val
       /\ req[r].pc = "done" =>
             /\ req[r].response[1].probability \in 0..1000
             /\ req[r].response[1].risk_level \in Tiers

\* C2 witness: a request answered although it mixed an unseen answer with a
\* seen one whose code is not 0.
C2_Witness ==
    \E r \in Calls :
       /\ req[r].pc = "done"
       /\ \E k \in 1..NCols :
             req[r].user_inputs[1][FEATURE_COLS[k]]
                \notin Range(encoders[1][FEATURE_COLS[k]])
       /\ \E k \in 1..NCols : req[r].encoded_values[k] > 0

\* C7: while the process serves, model and encoders are what load_model
\* read at startup, and two answered requests with the same 10 answers got
\* the same percentage, tier and echoed inputs.
C7_ArtifactReadOnly ==
    /\ spc = "serving" =>
          /\ model = loaded.model.content
          /\ encoders = loaded.encoders.content
    /\ \A r1, r2 \in Calls :
          ( /\ req[r1].pc = "done"
            /\ req[r2].pc = "done"
            /\ req[r1].user_inputs = req[r2].user_inputs ) =>
             /\ req[r1].response = req[r2].response
             /\ req[r1].response[1].inputs = req[r1].user_inputs[1]

\* C7 witness: two answered requests with the same answers, one of them
\* unseen, and a third request with other answers answered as well.
C7_Witness ==
    \E r1, r2, r3 \in Calls :
       /\ r1 # r2
       /\ req[r1].pc = "done" /\ req[r2].pc = "done" /\ req[r3].pc = "done"
       /\ req[r1].user_inputs = req[r2].user_inputs
       /\ req[r3].user_inputs # req[r1].user_inputs
       /\ \E c \in ColSet : req[r1].user_inputs[1][c] = "Maybe"

\* C8: a request is handled, and the process serves, only with both files
\* read in full; a process that failed to read either has handled nothing.
C8_LoadedBeforeServing ==
    /\ (spc = "serving" \/ \E r \in Calls : req[r].pc # "idle") =>
          /\ spc = "serving"
          /\ loaded.model.state = "valid"
          /\ loaded.encoders.state = "valid"
          /\ model # << >>
          /\ encoders # << >>
    /\ spc = "crashed" => \A r \in Calls : req[r].pc = "idle"

\* C8 witness: a request was answered.
C8_Witness ==
    /\ spc = "serving"
    /\ \E r \in Calls : req[r].pc = "done"

\* C9: the classifier and the encoders a serving process holds were written
\* by one and the same training run.
C9_PairFromOneRun ==
    spc = "serving" => loaded.model.writer = loaded.encoders.writer

=============================================================================
